---------------------------- MODULE Spec2Model ----------------------------
(***************************************************************************)
(* The WaveNet/Cefas feed scripts: one CSV export is fetched, the rows of  *)
(* one station are selected, reshaped into a time series keyed by          *)
(* normalized timestamp, and written as static JSON artifacts.             *)
(*                                                                         *)
(* The repository holds six generations of the script.  They are modelled  *)
(* side by side; the variable `script` says which one a run executes:      *)
(*   "A"  src/unnamed/part_000   lines   1- 92  (findCol, matchesStation)   *)
(*   "B"  src/unnamed/part_002   lines   1-179  (pickHeader, rowIsCardigan) *)
(*   "C"  src/unnamed/part_001   lines   1-208  (wide/long shape detector)  *)
(*   "D"  src/unnamed/part_000   lines  94-228  (isCardigan, canonicalize)  *)
(*   "E"  src/fetch_cefas.mjs    lines   1-140  (isCardigan, classifyParam) *)
(*   "F"  src/fetch_cefas.mjs    lines 142-314  (pickStation, pickField)    *)
(*                                                                         *)
(* JavaScript strings are TLA+ strings (sequences of characters): Len,     *)
(* SubSeq and \o are the only primitives used on them.                     *)
(***************************************************************************)
EXTENDS Integers, Sequences, FiniteSets, TLC

(***************************************************************************)
(* Strings                                                                 *)
(***************************************************************************)
UpperAlphabet == "ABCDEFGHIJKLMNOPQRSTUVWXYZ"
LowerAlphabet == "abcdefghijklmnopqrstuvwxyz"
DigitAlphabet == "0123456789"

CharAt(s, i) == SubSeq(s, i, i)

\* index of character c in alphabet a, 0 when absent
IndexIn(a, c) ==
    IF \E i \in 1..Len(a) : CharAt(a, i) = c
    THEN CHOOSE i \in 1..Len(a) : CharAt(a, i) = c
    ELSE 0

CharsOf(a) == {CharAt(a, i) : i \in 1..Len(a)}
DigitChars == CharsOf(DigitAlphabet)
LowerChars == CharsOf(LowerAlphabet)
UpperChars == CharsOf(UpperAlphabet)
LowerOf == [c \in UpperChars |-> CharAt(LowerAlphabet, IndexIn(UpperAlphabet, c))]
UpperOf == [c \in LowerChars |-> CharAt(UpperAlphabet, IndexIn(LowerAlphabet, c))]
DigitValue == [c \in DigitChars |-> IndexIn(DigitAlphabet, c) - 1]

IsDigit(c) == c \in DigitChars
IsLowerAlnum(c) == c \in DigitChars \/ c \in LowerChars
IsSpace(c) == c = " "

LowerChar(c) == IF c \in UpperChars THEN LowerOf[c] ELSE c
UpperChar(c) == IF c \in LowerChars THEN UpperOf[c] ELSE c

RECURSIVE toLowerCase(_)
toLowerCase(s) ==
    IF Len(s) = 0 THEN ""
    ELSE LowerChar(CharAt(s, 1)) \o toLowerCase(SubSeq(s, 2, Len(s)))

RECURSIVE toUpperCase(_)
toUpperCase(s) ==
    IF Len(s) = 0 THEN ""
    ELSE UpperChar(CharAt(s, 1)) \o toUpperCase(SubSeq(s, 2, Len(s)))

RECURSIVE trimStart(_)
trimStart(s) ==
    IF Len(s) > 0 /\ IsSpace(CharAt(s, 1))
    THEN trimStart(SubSeq(s, 2, Len(s)))
    ELSE s

RECURSIVE trimEnd(_)
trimEnd(s) ==
    IF Len(s) > 0 /\ IsSpace(CharAt(s, Len(s)))
    THEN trimEnd(SubSeq(s, 1, Len(s) - 1))
    ELSE s

trim(s) == trimEnd(trimStart(s))

\* String.prototype.includes
includes(h, n) ==
    \E i \in 1..(Len(h) - Len(n) + 1) : SubSeq(h, i, i + Len(n) - 1) = n

endsWith(s, suffix) ==
    Len(s) >= Len(suffix) /\ SubSeq(s, Len(s) - Len(suffix) + 1, Len(s)) = suffix

\* s.replace(/\D/g, "")
RECURSIVE digitsOnly(_)
digitsOnly(s) ==
    IF Len(s) = 0 THEN ""
    ELSE (IF IsDigit(CharAt(s, 1)) THEN CharAt(s, 1) ELSE "")
         \o digitsOnly(SubSeq(s, 2, Len(s)))

\* s.replace(/[^a-z0-9]/g, "")   (also /[^a-z0-9]+/g: the same result)
RECURSIVE alnumOnly(_)
alnumOnly(s) ==
    IF Len(s) = 0 THEN ""
    ELSE (IF IsLowerAlnum(CharAt(s, 1)) THEN CharAt(s, 1) ELSE "")
         \o alnumOnly(SubSeq(s, 2, Len(s)))

\* s.replace(",", "."): the first comma only
RECURSIVE replaceFirstComma(_)
replaceFirstComma(s) ==
    IF Len(s) = 0 THEN ""
    ELSE IF CharAt(s, 1) = "," THEN "." \o SubSeq(s, 2, Len(s))
    ELSE CharAt(s, 1) \o replaceFirstComma(SubSeq(s, 2, Len(s)))

\* A missing cell (row[col] of an unresolved or absent column) is undefined.
Undefined == "<undefined>"
\* A column role that did not resolve (null from pickExact, undefined from find).
NoCol == "<null>"

\* String(v): undefined prints as "undefined"
String(v) == IF v = Undefined THEN "undefined" ELSE v
\* String(v ?? "")
StringOrEmpty(v) == IF v = Undefined THEN "" ELSE v

\* const norm = s => String(s ?? "").trim();
norm(s) == trim(StringOrEmpty(s))
\* const lc = s => norm(s).toLowerCase();
lc(s) == toLowerCase(norm(s))


(***************************************************************************)
(* Numbers and dates                                                       *)
(***************************************************************************)
RECURSIVE ToInt(_)
\* the value of a string of decimal digits
ToInt(s) ==
    IF Len(s) = 0 THEN 0
    ELSE 10 * ToInt(SubSeq(s, 1, Len(s) - 1)) + DigitValue[CharAt(s, Len(s))]

AllDigits(s, from, to) == \A i \in from..to : IsDigit(CharAt(s, i))

RECURSIVE DigitPrefixLen(_)
\* the length of the longest prefix of s made of digits
DigitPrefixLen(s) ==
    IF Len(s) > 0 /\ IsDigit(CharAt(s, 1))
    THEN 1 + DigitPrefixLen(SubSeq(s, 2, Len(s)))
    ELSE 0

Pow10(n) == CASE n = 0 -> 1000 [] n = 1 -> 100 [] n = 2 -> 10 [] OTHER -> 1

(* parseFloat(s): leading white space is skipped, then the longest prefix   *)
(* [+-]digits[.digits] is read.  The result is <<>> for NaN and <<v>> for a *)
(* finite number, v in thousandths (digits after the third decimal are cut; *)
(* exponents and "Infinity" do not occur in the modelled payloads).         *)
parseFloat(str) ==
    LET s0   == trimStart(str)
        neg  == Len(s0) > 0 /\ CharAt(s0, 1) = "-"
        sgn  == Len(s0) > 0 /\ (CharAt(s0, 1) = "-" \/ CharAt(s0, 1) = "+")
        s    == IF sgn THEN SubSeq(s0, 2, Len(s0)) ELSE s0
        n    == DigitPrefixLen(s)
        rest == SubSeq(s, n + 1, Len(s))
        dot  == Len(rest) > 0 /\ CharAt(rest, 1) = "."
        frac == IF dot THEN SubSeq(rest, 2, Len(rest)) ELSE ""
        m    == DigitPrefixLen(frac)
        k    == IF m > 3 THEN 3 ELSE m
        mag  == ToInt(SubSeq(s, 1, n)) * 1000 + ToInt(SubSeq(frac, 1, k)) * Pow10(k)
    IN IF n = 0 /\ m = 0 THEN <<>>
       ELSE <<IF neg THEN 0 - mag ELSE mag>>

\* Number.isFinite(val)
isFinite(v) == v # <<>>

(* Days since 1970-01-01 of the proleptic Gregorian date y-m-d, m in 1..12, *)
(* and its inverse (ECMAScript MakeDay / YearFromTime, MonthFromTime,       *)
(* DateFromTime).                                                           *)
DaysFromCivil(y, m, d) ==
    LET yy  == IF m <= 2 THEN y - 1 ELSE y
        era == yy \div 400
        yoe == yy - era * 400
        mp  == IF m > 2 THEN m - 3 ELSE m + 9
        doy == (153 * mp + 2) \div 5 + d - 1
        doe == yoe * 365 + yoe \div 4 - yoe \div 100 + doy
    IN era * 146097 + doe - 719468

CivilFromDays(z0) ==
    LET z   == z0 + 719468
        era == z \div 146097
        doe == z - era * 146097
        yoe == (doe - doe \div 1460 + doe \div 36524 - doe \div 146096) \div 365
        doy == doe - (365 * yoe + yoe \div 4 - yoe \div 100)
        mp  == (5 * doy + 2) \div 153
        d   == doy - (153 * mp + 2) \div 5 + 1
        m   == IF mp < 10 THEN mp + 3 ELSE mp - 9
        y   == yoe + era * 400 + (IF m <= 2 THEN 1 ELSE 0)
    IN <<y, m, d>>

\* A Date is <<>> (Invalid Date) or <<days since the epoch, second of the day>>.
InvalidDate == <<>>

\* carry seconds into days
MakeDate(days, secs) == <<days + secs \div 86400, secs % 86400>>

(* Date.UTC(year, monthIndex, day, h, mi, s): every component overflows     *)
(* into the next larger one, and a year 0..99 means 1900 + year.            *)
DateUTC(year, monthIndex, day, h, mi, s) ==
    LET yr == IF year >= 0 /\ year <= 99 THEN 1900 + year ELSE year
        y  == yr + monthIndex \div 12
        m  == (monthIndex % 12) + 1
    IN MakeDate(DaysFromCivil(y, m, 1) + day - 1, h * 3600 + mi * 60 + s)

Pad2(n) == CharAt(DigitAlphabet, ((n \div 10) % 10) + 1) \o CharAt(DigitAlphabet, (n % 10) + 1)
Pad4(n) == Pad2(n \div 100) \o Pad2(n % 100)

\* Date.prototype.toISOString, for the years 0000..9999 (milliseconds are 000)
FormatISO(ymd, t) ==
    Pad4(ymd[1]) \o "-" \o Pad2(ymd[2]) \o "-" \o Pad2(ymd[3]) \o "T"
    \o Pad2(t \div 3600) \o ":" \o Pad2((t \div 60) % 60) \o ":" \o Pad2(t % 60)
    \o ".000Z"
toISOString(date) == FormatISO(CivilFromDays(date[1]), date[2])

(* /^(\d{2})\/(\d{2})\/(\d{4})(?:[ T](\d{2}):(\d{2})(?::(\d{2}))?)?$/       *)
(* <<>> when s does not match, else <<dd, MM, yyyy, hh, mm, ss>> with the   *)
(* defaults "00" of the destructuring.                                      *)
MatchDMY(s) ==
    LET n == Len(s)
        dateOk == n >= 10 /\ AllDigits(s, 1, 2) /\ CharAt(s, 3) = "/"
                  /\ AllDigits(s, 4, 5) /\ CharAt(s, 6) = "/" /\ AllDigits(s, 7, 10)
        hmOk   == n >= 16 /\ (CharAt(s, 11) = " " \/ CharAt(s, 11) = "T")
                  /\ AllDigits(s, 12, 13) /\ CharAt(s, 14) = ":" /\ AllDigits(s, 15, 16)
        sOk    == n = 19 /\ CharAt(s, 17) = ":" /\ AllDigits(s, 18, 19)
    IN IF dateOk /\ (n = 10 \/ (hmOk /\ (n = 16 \/ sOk)))
       THEN <<ToInt(SubSeq(s, 1, 2)), ToInt(SubSeq(s, 4, 5)), ToInt(SubSeq(s, 7, 10)),
              IF n >= 16 THEN ToInt(SubSeq(s, 12, 13)) ELSE 0,
              IF n >= 16 THEN ToInt(SubSeq(s, 15, 16)) ELSE 0,
              IF n = 19 THEN ToInt(SubSeq(s, 18, 19)) ELSE 0>>
       ELSE <<>>

(* /^(\d{4})-(\d{2})-(\d{2})(?:[ T](\d{2}):(\d{2})(?::(\d{2}))?)?$/         *)
(* <<>> or <<yyyy, MM, dd, hh, mm, ss>>                                     *)
MatchYMD(s) ==
    LET n == Len(s)
        dateOk == n >= 10 /\ AllDigits(s, 1, 4) /\ CharAt(s, 5) = "-"
                  /\ AllDigits(s, 6, 7) /\ CharAt(s, 8) = "-" /\ AllDigits(s, 9, 10)
        hmOk   == n >= 16 /\ (CharAt(s, 11) = " " \/ CharAt(s, 11) = "T")
                  /\ AllDigits(s, 12, 13) /\ CharAt(s, 14) = ":" /\ AllDigits(s, 15, 16)
        sOk    == n = 19 /\ CharAt(s, 17) = ":" /\ AllDigits(s, 18, 19)
    IN IF dateOk /\ (n = 10 \/ (hmOk /\ (n = 16 \/ sOk)))
       THEN <<ToInt(SubSeq(s, 1, 4)), ToInt(SubSeq(s, 6, 7)), ToInt(SubSeq(s, 9, 10)),
              IF n >= 16 THEN ToInt(SubSeq(s, 12, 13)) ELSE 0,
              IF n >= 16 THEN ToInt(SubSeq(s, 15, 16)) ELSE 0,
              IF n = 19 THEN ToInt(SubSeq(s, 18, 19)) ELSE 0>>
       ELSE <<>>

\* /^\d{4}-\d{2}-\d{2}T/.test(s)
LooksISO(s) ==
    Len(s) >= 11 /\ AllDigits(s, 1, 4) /\ CharAt(s, 5) = "-" /\ AllDigits(s, 6, 7)
    /\ CharAt(s, 8) = "-" /\ AllDigits(s, 9, 10) /\ CharAt(s, 11) = "T"

DaysInMonth(y, m) == DaysFromCivil(IF m = 12 THEN y + 1 ELSE y, IF m = 12 THEN 1 ELSE m + 1, 1)
                     - DaysFromCivil(y, m, 1)

(* new Date(s) for a string s (Date.parse), as Node's V8 reads it; zone is *)
(* the local zone's offset from UTC in minutes.  The forms read are         *)
(*   YYYY-MM-DD                      UTC   (ECMAScript date-only form)      *)
(*   YYYY-MM-DDTHH:mm[:ss]           local (ECMAScript date-time form)      *)
(*   YYYY-MM-DD HH:mm[:ss]           local (legacy parser)                  *)
(*   MM/DD/YYYY[ HH:mm[:ss]]         local (legacy parser: month first)     *)
(* each with an optional trailing Z, which makes it UTC.  Any other string, *)
(* and any field out of range, is an Invalid Date.                          *)
DateOfYMD(f, dateOnly, utc, off) ==
    IF f[2] \in 1..12 /\ f[3] >= 1 /\ f[3] <= DaysInMonth(f[1], f[2])
       /\ f[4] <= 23 /\ f[5] <= 59 /\ f[6] <= 59
       /\ ~(utc /\ dateOnly)
    THEN MakeDate(DaysFromCivil(f[1], f[2], f[3]),
                  f[4] * 3600 + f[5] * 60 + f[6] - (IF dateOnly THEN 0 ELSE off))
    ELSE InvalidDate

\* the first field is the month, the second the day
DateOfMDY(f, off) ==
    IF f[1] \in 1..12 /\ f[2] \in 1..31 /\ f[4] <= 23 /\ f[5] <= 59 /\ f[6] <= 59
    THEN MakeDate(DaysFromCivil(f[3], f[1], 1) + f[2] - 1,
                  f[4] * 3600 + f[5] * 60 + f[6] - off)
    ELSE InvalidDate

DateOfFields(ymd, mdy, dateOnly, utc, off) ==
    IF ymd # <<>> THEN DateOfYMD(ymd, dateOnly, utc, off)
    ELSE IF mdy # <<>> THEN DateOfMDY(mdy, off)
    ELSE InvalidDate

NativeParse(str, zone) ==
    LET s0  == trim(str)
        utc == endsWith(s0, "Z")
        s   == IF utc THEN SubSeq(s0, 1, Len(s0) - 1) ELSE s0
    IN DateOfFields(MatchYMD(s), MatchDMY(s), Len(s) = 10, utc, IF utc THEN 0 ELSE zone * 60)

isNaN(date) == date = InvalidDate
\* toISO's null
NullTs == "<null>"

(***************************************************************************)
(* Configuration (process.env, with the scripts' defaults)                 *)
(***************************************************************************)
\* process.env.STATION_CODE || "EXT"
STATION_CODE == "EXT"
\* process.env.PLATFORM_ID || "353~EXT"
PLATFORM_ID == "353~EXT"
\* process.env.INST_ID is the variable instIdEnv: Undefined when unset.

\* script E: process.env.INST_ID ? String(process.env.INST_ID).trim() : "353"
INST_ID_ENV(env) == IF env = Undefined \/ env = "" THEN "353" ELSE trim(env)
\* script D: String(process.env.INST_ID || "353").replace(/\D/g,"")
TARGET_INST_D(env) == digitsOnly(IF env = Undefined \/ env = "" THEN "353" ELSE env)
\* script F: (process.env.INST_ID || "").replace(/\D/g, "")
PREFERRED_INST(env) == digitsOnly(IF env = Undefined THEN "" ELSE env)

(***************************************************************************)
(* Header classifier                                                       *)
(***************************************************************************)
Min(S) == CHOOSE x \in S : \A y \in S : x <= y

\* a || b on column names: null, undefined and "" are falsy
OrElse(a, b) == IF a = NoCol \/ a = "" THEN b ELSE a

\* [a, b, ...].filter(Boolean)
RECURSIVE filterBoolean(_)
filterBoolean(names) ==
    IF names = <<>> THEN <<>>
    ELSE (IF Head(names) = NoCol \/ Head(names) = "" THEN <<>> ELSE <<Head(names)>>)
         \o filterBoolean(Tail(names))

\* [...new Set(cols)]: the first occurrence of each name, in order
RECURSIVE dedupe(_)
dedupe(names) ==
    IF names = <<>> THEN <<>>
    ELSE LET init == dedupe(SubSeq(names, 1, Len(names) - 1))
             last == names[Len(names)]
         IN IF \E i \in DOMAIN init : init[i] = last THEN init ELSE Append(init, last)

(* The exact-candidates loop shared by pickExact (scripts C, E), pick (D),  *)
(* findCol (A) and pickHeader (B): fold(x) is lc in C, D, E and             *)
(* toLowerCase in A, B.  Candidates are tried in their order; for one       *)
(* candidate the first header equal to it is returned.                      *)
ExactLoop(hdrs, names, trimmed) ==
    LET F(x) == IF trimmed THEN lc(x) ELSE toLowerCase(x)
        H    == [i \in DOMAIN hdrs |-> F(hdrs[i])]
        N    == [k \in DOMAIN names |-> F(names[k])]
        hits == {k \in DOMAIN names : \E i \in DOMAIN hdrs : H[i] = N[k]}
    IN IF hits = {} THEN NoCol
       ELSE LET k == Min(hits)
            IN hdrs[Min({i \in DOMAIN hdrs : H[i] = N[k]})]

\* The substring loop of the same functions: needles in their order.
LooseLoop(hdrs, needles, trimmed) ==
    LET F(x) == IF trimmed THEN lc(x) ELSE toLowerCase(x)
        H    == [i \in DOMAIN hdrs |-> F(hdrs[i])]
        N    == [k \in DOMAIN needles |-> F(needles[k])]
        hits == {k \in DOMAIN needles : \E i \in DOMAIN hdrs : includes(H[i], N[k])}
    IN IF hits = {} THEN NoCol
       ELSE LET k == Min(hits)
            IN hdrs[Min({i \in DOMAIN hdrs : includes(H[i], N[k])})]

pickExact(hdrs, names) == ExactLoop(hdrs, names, TRUE)
pickLoose(hdrs, needles) == LooseLoop(hdrs, needles, TRUE)

\* script D: pick(headers, exact, loose)
pick(hdrs, exact, loose) ==
    LET e == ExactLoop(hdrs, exact, TRUE)
    IN IF e # NoCol THEN e ELSE LooseLoop(hdrs, loose, TRUE)

\* script A: findCol(headers, exact, loose); script B: pickHeader, the same code
findCol(hdrs, exact, loose) ==
    LET e == ExactLoop(hdrs, exact, FALSE)
    IN IF e # NoCol THEN e ELSE LooseLoop(hdrs, loose, FALSE)

pickHeader(hdrs, exact, loose) == findCol(hdrs, exact, loose)

(* script F: exact.find(h => headers.includes(h)) || headers.find(h =>      *)
(* lc(h).includes(n1) || lc(h).includes(n2) ...): the exact names are       *)
(* compared case-sensitively, and the fallback returns the first HEADER     *)
(* that holds any needle.                                                   *)
findF(hdrs, exact, needles) ==
    LET H    == [i \in DOMAIN hdrs |-> lc(hdrs[i])]
        hits == {k \in DOMAIN exact : \E i \in DOMAIN hdrs : hdrs[i] = exact[k]}
        loose == {i \in DOMAIN hdrs : \E k \in DOMAIN needles : includes(H[i], needles[k])}
    IN IF hits # {} /\ exact[Min(hits)] # "" THEN exact[Min(hits)]
       ELSE IF loose # {} THEN hdrs[Min(loose)]
       ELSE NoCol

\* row[col]: the cell of the column named col, undefined when there is none
Cell(hdrs, row, col) ==
    LET hit == {i \in DOMAIN hdrs : hdrs[i] = col}
    IN IF hit = {} THEN Undefined
       ELSE row[CHOOSE i \in hit : \A j \in hit : j <= i]

(***************************************************************************)
(* Parameter classifier                                                    *)
(***************************************************************************)
CanonicalKeys == <<"hm0", "tp", "tz", "dir">>
\* a label that classifies to nothing (null / undefined)
Unclassified == "<none>"

SomeIncludes(t, needles) == \E k \in DOMAIN needles : includes(t, needles[k])

\* script E: classifyParam(v)
classifyParam(v) ==
    LET t == alnumOnly(lc(v))
    IN IF includes(t, "hm0") \/ includes(t, "hs") \/ includes(t, "significantwaveheight")
       THEN "hm0"
       ELSE IF t = "tpeak" \/ t = "tp" \/ includes(t, "peakperiod") \/ t = "tpp" THEN "tp"
       ELSE IF t = "tz" \/ t = "t02" \/ includes(t, "zerocross") THEN "tz"
       ELSE IF includes(t, "w_pdir") \/ t = "dp" \/ includes(t, "peakdirection")
               \/ includes(t, "mwd") \/ includes(t, "direction") THEN "dir"
       ELSE Unclassified

\* script C: classifyLongParam(v), the same text as script E's classifyParam
classifyLongParam(v) ==
    LET t == alnumOnly(lc(v))
    IN IF includes(t, "hm0") \/ includes(t, "hs") \/ includes(t, "significantwaveheight")
       THEN "hm0"
       ELSE IF t = "tpeak" \/ t = "tp" \/ includes(t, "peakperiod") \/ t = "tpp" THEN "tp"
       ELSE IF t = "tz" \/ t = "t02" \/ includes(t, "zerocross") THEN "tz"
       ELSE IF includes(t, "w_pdir") \/ t = "dp" \/ includes(t, "peakdirection")
               \/ includes(t, "mwd") \/ includes(t, "direction") THEN "dir"
       ELSE Unclassified

\* script C: classifyWideHeader(h); /(^|)hm0($|)/ matches wherever hm0 occurs
classifyWideHeader(h) ==
    LET t == alnumOnly(lc(h))
    IN IF includes(t, "hm0") \/ includes(t, "hs") \/ includes(t, "significantwaveheight")
       THEN "hm0"
       ELSE IF t = "tpeak" \/ t = "tp" \/ includes(t, "peakperiod") THEN "tp"
       ELSE IF t = "tz" \/ t = "t02" \/ includes(t, "zerocross") THEN "tz"
       ELSE IF includes(t, "w_pdir") \/ t = "dp" \/ includes(t, "peakdirection")
               \/ includes(t, "mwd") \/ t = "direction" \/ includes(t, "meandirection")
       THEN "dir"
       ELSE Unclassified

\* script B: normParam(v)
normParam(v) == alnumOnly(toLowerCase(StringOrEmpty(v)))

\* script B: classifyParam(raw)
classifyParamB(raw) ==
    LET p == normParam(raw)
    IN IF SomeIncludes(p, <<"hm0", "hs", "significantwaveheight", "swh", "hm0m", "hsig">>)
       THEN "hm0"
       ELSE IF SomeIncludes(p, <<"tpeak", "tp", "peakperiod", "tppeak", "tpp">>) THEN "tp"
       ELSE IF SomeIncludes(p, <<"tz", "t02", "meanzero", "zerocross">>) THEN "tz"
       ELSE IF SomeIncludes(p, <<"w_pdir", "dp", "peakdirection", "dirpeak", "swelldirection",
                                 "direction", "mwd", "meandirection">>) THEN "dir"
       ELSE Unclassified

(* script A: wanted[pcode] with wanted = {Hm0, Tpeak, Tz, W_PDIR}.  The     *)
(* lookup also answers the names every object inherits from                *)
(* Object.prototype; those values are truthy, and used as a property key    *)
(* they are converted to a string.                                          *)
ObjectPrototypeNames ==
    {"constructor", "toString", "toLocaleString", "valueOf", "hasOwnProperty",
     "isPrototypeOf", "propertyIsEnumerable", "__proto__"}

wanted(pcode) ==
    CASE pcode = "Hm0"    -> "hm0"
      [] pcode = "Tpeak"  -> "tp"
      [] pcode = "Tz"     -> "tz"
      [] pcode = "W_PDIR" -> "dir"
      [] pcode = "constructor" -> "function Object() { [native code] }"
      [] pcode = "__proto__"   -> "[object Object]"
      [] pcode \in ObjectPrototypeNames \ {"constructor", "__proto__"} ->
            "function " \o pcode \o "() { [native code] }"
      [] OTHER -> Unclassified

(* scripts D and F: the regular expressions handed to pickField, each       *)
(* either anchored on both sides (the canonical label equals s) or not      *)
(* anchored (it contains s).                                                *)
Eq(x) == [anchored |-> TRUE, s |-> x]
Has(x) == [anchored |-> FALSE, s |-> x]
reTest(re, t) == IF re.anchored THEN t = re.s ELSE includes(t, re.s)

PatternsD(key) ==
    CASE key = "hm0" -> <<Eq("hm0"), Has("significantwaveheight"), Eq("hs"), Has("hm0m")>>
      [] key = "tp"  -> <<Eq("tpeak"), Eq("tp"), Has("peakperiod"), Eq("tpp")>>
      [] key = "tz"  -> <<Eq("tz"), Eq("t02"), Has("zerocross")>>
      [] key = "dir" -> <<Eq("w_pdir"), Eq("dp"), Has("peakdirection"), Eq("mwd"),
                          Has("meandirection"), Eq("direction")>>

PatternsF(key) ==
    CASE key = "hm0" -> <<Eq("hm0"), Has("significantwaveheight"), Eq("hs"), Has("hm0m")>>
      [] key = "tp"  -> <<Eq("tpeak"), Eq("tp"), Has("peakperiod"), Eq("tpp")>>
      [] key = "tz"  -> <<Eq("tz"), Eq("t02"), Has("zerocross")>>
      [] key = "dir" -> <<Eq("w_pdir"), Eq("wpdir"), Eq("dp"), Has("peakdirection"), Eq("mwd"),
                          Has("meandirection"), Eq("direction")>>

\* k.toLowerCase().replace(/[^a-z0-9]/g, "")
canon(k) == alnumOnly(toLowerCase(k))

(* A raw map is the object e.raw: a sequence of <<label, value>> pairs in   *)
(* insertion order, one pair per label.                                     *)
RawLabels(raw) == {raw[i][1] : i \in DOMAIN raw}
RawGet(raw, label) == raw[CHOOSE i \in DOMAIN raw : raw[i][1] = label][2]
RawSet(raw, label, val) ==
    IF label \in RawLabels(raw)
    THEN [i \in DOMAIN raw |-> IF raw[i][1] = label THEN <<label, val>> ELSE raw[i]]
    ELSE Append(raw, <<label, val>>)

(* script D: pickField(raw, keys): the first ENTRY of raw, in insertion     *)
(* order, whose canonical label matches any of the patterns.                *)
(* <<>> is undefined, <<v>> the value picked.                               *)
pickFieldD(raw, patterns) ==
    LET hit == {i \in DOMAIN raw :
                   \E k \in DOMAIN patterns : reTest(patterns[k], canon(raw[i][1]))}
    IN IF hit = {} THEN <<>> ELSE <<raw[Min(hit)][2]>>

(* script F: pickField(raw, patterns): the first PATTERN, in its order,     *)
(* that some label matches; of the labels it matches, the first.            *)
pickFieldF(raw, patterns) ==
    LET ks == {k \in DOMAIN patterns :
                   \E i \in DOMAIN raw : reTest(patterns[k], canon(raw[i][1]))}
    IN IF ks = {} THEN <<>>
       ELSE <<raw[Min({i \in DOMAIN raw : reTest(patterns[Min(ks)], canon(raw[i][1]))})][2]>>

(***************************************************************************)
(* Column detection, per script                                            *)
(***************************************************************************)
Scripts == {"A", "B", "C", "D", "E", "F"}

TimeNames5 == <<"DateTime", "SampleDateTime", "Timestamp", "Time", "Datetime">>
TimeNames6 == <<"Date/Time", "DateTime", "SampleDateTime", "Timestamp", "Time", "Datetime">>
StationNames == <<"Station", "StationCode", "Site", "SiteCode", "StationID">>
PlatformNames3 == <<"Platform", "PlatformCode", "PlatformID">>
PlatformNames4 == <<"Platform", "PlatformCode", "PlatformID", "PlatformNumber">>
NameNames == <<"StationName", "SiteName", "PlatformName", "Location">>
ParamNames == <<"Parameter", "ParameterCode", "ParamCode">>
ValueNames5 == <<"Value", "Result", "Reading", "DataValue", "NumericValue">>
ValueNames6 == <<"ResultMean", "Value", "Result", "Reading", "DataValue", "NumericValue">>
InstNames == <<"InstId", "InstID", "InstrumentID", "InstrumentId">>
DeployNames == <<"Deployment", "DeploymentName">>
ValueNeedles == <<"value", "result", "reading">>
ParamNeedles == <<"parameter", "param", "variable", "observed", "property", "name">>

\* script C: wideMap[k] = h for every header h that classifies, the last one wins
wideMapOf(hdrs) ==
    [k \in {"hm0", "tp", "tz", "dir"} |->
        LET hit == {i \in DOMAIN hdrs : classifyWideHeader(hdrs[i]) = k}
        IN IF hit = {} THEN NoCol
           ELSE hdrs[CHOOSE i \in hit : \A j \in hit : j <= i]]

\* one key recognised taken for enough
anyKey(wm) == Cardinality({k \in DOMAIN wm : wm[k] # NoCol}) >= 1

\* script C: const isWide = Object.keys(wideMap).length >= 2
isWide(wm) == Cardinality({k \in DOMAIN wm : wm[k] # NoCol}) >= 2

\* the roles no script resolved
NoColumns ==
    [time |-> NoCol, station |-> NoCol, platform |-> NoCol, param |-> NoCol,
     value |-> NoCol, inst |-> NoCol, dep |-> NoCol,
     paramCols |-> <<>>, stationCols |-> <<>>, platformCols |-> <<>>, nameCols |-> <<>>,
     filterCols |-> <<>>, wideMap |-> [k \in {"hm0", "tp", "tz", "dir"} |-> NoCol],
     isWide |-> FALSE]

DetectA(h) ==
    [NoColumns EXCEPT
        !.time     = findCol(h, TimeNames5, <<"time">>),
        !.station  = findCol(h, StationNames, <<"station", "site">>),
        !.platform = findCol(h, PlatformNames3, <<"platform">>),
        !.param    = findCol(h, ParamNames, <<"parameter">>),
        !.value    = findCol(h, ValueNames5, ValueNeedles)]

DetectB(h) ==
    [NoColumns EXCEPT
        !.time  = pickHeader(h, TimeNames5, <<"time">>),
        !.value = pickHeader(h, ValueNames5, ValueNeedles),
        !.paramCols = filterBoolean(<<
            pickHeader(h, ParamNames, <<"parameter", "param">>),
            pickHeader(h, <<>>, <<"name", "shortname", "observed", "property", "variable">>)>>),
        !.stationCols  = filterBoolean(<<pickHeader(h, StationNames, <<"station", "site">>)>>),
        !.platformCols = filterBoolean(<<pickHeader(h, PlatformNames4, <<"platform">>)>>),
        !.nameCols     = filterBoolean(<<pickHeader(h, NameNames, <<"name", "location">>)>>)]

DetectC(h) ==
    LET stationCols  == filterBoolean(<<pickExact(h, StationNames),
                                        pickLoose(h, <<"station", "site", "buoy">>)>>)
        platformCols == filterBoolean(<<pickExact(h, PlatformNames4),
                                        pickLoose(h, <<"platform">>)>>)
        nameCols     == filterBoolean(<<pickExact(h, NameNames),
                                        pickLoose(h, <<"name", "location">>)>>)
        wm           == wideMapOf(h)
    IN [NoColumns EXCEPT
        !.stationCols = stationCols, !.platformCols = platformCols, !.nameCols = nameCols,
        !.filterCols  = dedupe(stationCols \o platformCols \o nameCols),
        \* findTimeCol(headers)
        !.time    = OrElse(pickExact(h, TimeNames5), pickLoose(h, <<"date", "time">>)),
        !.wideMap = wm,
        !.isWide  = isWide(wm),
        !.value   = OrElse(pickExact(h, ValueNames5), pickLoose(h, ValueNeedles)),
        !.param   = OrElse(pickExact(h, ParamNames), pickLoose(h, ParamNeedles))]

DetectD(h) ==
    [NoColumns EXCEPT
        !.time  = pick(h, TimeNames6, <<"date", "time">>),
        !.inst  = pick(h, InstNames, <<"inst", "instrument">>),
        !.dep   = pick(h, DeployNames, <<"deployment", "location", "site", "name">>),
        !.param = pick(h, ParamNames, ParamNeedles),
        !.value = pick(h, ValueNames6, ValueNeedles)]

DetectE(h) ==
    [NoColumns EXCEPT
        !.time  = OrElse(pickExact(h, TimeNames6), pickLoose(h, <<"date", "time">>)),
        !.param = OrElse(pickExact(h, ParamNames), pickLoose(h, ParamNeedles)),
        !.value = OrElse(pickExact(h, ValueNames6), pickLoose(h, ValueNeedles)),
        !.inst  = OrElse(pickExact(h, InstNames), pickLoose(h, <<"inst", "instrument">>)),
        !.dep   = OrElse(pickExact(h, DeployNames),
                         pickLoose(h, <<"deployment", "location", "site", "name">>))]

DetectF(h) ==
    [NoColumns EXCEPT
        !.time  = findF(h, TimeNames6, <<"time", "date">>),
        !.inst  = findF(h, InstNames, <<"inst">>),
        !.dep   = findF(h, DeployNames, <<"deploy", "location", "site", "name">>),
        !.param = findF(h, ParamNames, <<"param", "variable", "observed", "property", "name">>),
        !.value = findF(h, ValueNames6, ValueNeedles)]

Detect(s, h) ==
    CASE s = "A" -> DetectA(h) [] s = "B" -> DetectB(h) [] s = "C" -> DetectC(h)
      [] s = "D" -> DetectD(h) [] s = "E" -> DetectE(h) [] s = "F" -> DetectF(h)

(***************************************************************************)
(* Row selector, per script                                                *)
(***************************************************************************)
\* script A: matchesStation(r)
matchesStation(c, h, r) ==
    LET s == IF c.station # NoCol
             THEN toUpperCase(trim(StringOrEmpty(Cell(h, r, c.station)))) ELSE ""
        p == IF c.platform # NoCol
             THEN toUpperCase(trim(StringOrEmpty(Cell(h, r, c.platform)))) ELSE ""
    IN s = toUpperCase(STATION_CODE) \/ p = toUpperCase(PLATFORM_ID)

\* arr.join(sep)
RECURSIVE join(_, _)
join(arr, sep) ==
    IF arr = <<>> THEN ""
    ELSE IF Len(arr) = 1 THEN arr[1]
    ELSE arr[1] \o sep \o join(Tail(arr), sep)

\* script B: rowIsCardigan(r, stationCols, platformCols, nameCols)
rowIsCardigan(c, h, r) ==
    LET needles == <<toUpperCase(STATION_CODE), toUpperCase(PLATFORM_ID), "353", "CARDIGAN">>
        cs   == c.stationCols \o c.platformCols \o c.nameCols
        pool == [i \in DOMAIN cs |-> StringOrEmpty(Cell(h, r, cs[i]))]
        hay  == toUpperCase(join(pool, "|"))
    IN SomeIncludes(hay, needles)

\* script C: stationMatchPool(row, stationCols)
stationMatchPool(h, r, cs) ==
    join([i \in DOMAIN cs |-> lc(Cell(h, r, cs[i]))], " | ")

\* /(^|[^0-9])353([^0-9]|$)/.test(pool)
Alone353(pool) ==
    \E i \in 1..(Len(pool) - 2) :
        /\ SubSeq(pool, i, i + 2) = "353"
        /\ (i = 1 \/ ~IsDigit(CharAt(pool, i - 1)))
        /\ (i + 2 = Len(pool) \/ ~IsDigit(CharAt(pool, i + 3)))

\* an empty pool taken for a match
emptyOrCardigan(pool) == pool = "" \/ includes(pool, "cardigan")

\* script C: looksLikeCardigan(pool); STATION_CODE and PLATFORM_ID are upper-cased there
looksLikeCardigan(pool) ==
    \/ includes(pool, lc(toUpperCase(STATION_CODE)))
    \/ includes(pool, lc(toUpperCase(PLATFORM_ID)))
    \/ Alone353(pool)
    \/ includes(pool, "cardigan")

\* script D: the instrument-id test of isCardigan
NumericSignalD(env, c, h, r) ==
    LET inst == IF c.inst # NoCol THEN StringOrEmpty(Cell(h, r, c.inst)) ELSE ""
    IN inst # "" /\ digitsOnly(inst) = TARGET_INST_D(env)

\* script D: isCardigan(row)
isCardiganD(env, c, h, r) ==
    LET dep == IF c.dep # NoCol THEN lc(Cell(h, r, c.dep)) ELSE ""
    IN NumericSignalD(env, c, h, r) \/ includes(dep, "cardigan")

\* script E: the instrument-id test of isCardigan
NumericSignalE(env, c, h, r) ==
    LET instVal == IF c.inst # NoCol THEN norm(Cell(h, r, c.inst)) ELSE ""
    IN instVal # "" /\ digitsOnly(instVal) = digitsOnly(INST_ID_ENV(env))

\* script E: isCardigan(row); STATION_CODE is upper-cased there
isCardiganE(env, c, h, r) ==
    LET depVal == IF c.dep # NoCol THEN lc(Cell(h, r, c.dep)) ELSE ""
    IN \/ NumericSignalE(env, c, h, r)
       \/ includes(depVal, "cardigan")
       \/ includes(depVal, lc(toUpperCase(STATION_CODE)))

(* script F: the summary of instruments present (stationMap), in the order  *)
(* their keys first appear.  lastTs and params are only written to          *)
(* stations.json and are left out.                                          *)
instKeyOf(c, h, r) ==
    LET inst == IF c.inst # NoCol THEN norm(Cell(h, r, c.inst)) ELSE ""
        dep  == IF c.dep # NoCol THEN norm(Cell(h, r, c.dep)) ELSE ""
        d    == digitsOnly(inst)
    IN (IF d # "" THEN d ELSE "no-inst") \o "|" \o (IF dep # "" THEN dep ELSE "no-deployment")

RECURSIVE stationMapOf(_, _, _)
stationMapOf(c, h, rws) ==
    IF rws = <<>> THEN <<>>
    ELSE LET init == stationMapOf(c, h, SubSeq(rws, 1, Len(rws) - 1))
             r    == rws[Len(rws)]
             key  == instKeyOf(c, h, r)
             d    == IF c.inst # NoCol THEN digitsOnly(norm(Cell(h, r, c.inst))) ELSE ""
         IN IF \E i \in DOMAIN init : init[i].key = key
            THEN [i \in DOMAIN init |->
                    IF init[i].key = key
                    THEN [init[i] EXCEPT !.rowCount = @ + 1] ELSE init[i]]
            ELSE Append(init, [key |-> key,
                               instId |-> IF d # "" THEN d ELSE NoCol,
                               deployment |-> IF c.dep # NoCol THEN norm(Cell(h, r, c.dep))
                                              ELSE NoCol,
                               rowCount |-> 1])

\* arr.sort((a,b) => b.rowCount - a.rowCount)[0]: the first entry of the largest count
MostPopulated(arr) ==
    arr[Min({i \in DOMAIN arr : \A j \in DOMAIN arr : arr[j].rowCount <= arr[i].rowCount})]

\* script F: pickStation(); rows is never empty here
pickStation(env, c, h, rws) ==
    LET all == stationMapOf(c, h, rws)
        IsCardiganEntry(s) == includes(lc(IF s.deployment = NoCol THEN "" ELSE s.deployment),
                                       "cardigan")
        IsPreferred(s) == (IF s.instId = NoCol THEN "" ELSE s.instId) = PREFERRED_INST(env)
        cardigan == SelectSeq(all, IsCardiganEntry)
        byInst   == SelectSeq(all, IsPreferred)
    IN IF cardigan # <<>> THEN MostPopulated(cardigan)
       ELSE IF PREFERRED_INST(env) # "" /\ byInst # <<>> THEN MostPopulated(byInst)
       ELSE MostPopulated(all)

\* script F: matchesChosen(r)
matchesChosen(chosen, c, h, r) ==
    LET instDigits == IF c.inst # NoCol THEN digitsOnly(norm(Cell(h, r, c.inst))) ELSE ""
        depTxt     == IF c.dep # NoCol THEN lc(Cell(h, r, c.dep)) ELSE ""
    IN \/ chosen.instId # NoCol /\ chosen.instId # "" /\ instDigits = chosen.instId
       \/ /\ chosen.deployment # NoCol /\ chosen.deployment # ""
          /\ lc(chosen.deployment) # ""
          /\ depTxt = lc(chosen.deployment)

(***************************************************************************)
(* Timestamp normalization, per script.  The result is the ISO-8601 string *)
(* or NullTs.                                                              *)
(***************************************************************************)
isoOrNull(d) == IF isNaN(d) THEN NullTs ELSE toISOString(d)

\* script A: toISO(s)
toISO_A(v, zone) == IF v = Undefined THEN NullTs ELSE isoOrNull(NativeParse(v, zone))

\* d1 unless it is an Invalid Date, then d2
OrIfInvalid(d1, d2) == IF isNaN(d1) THEN d2 ELSE d1

\* scripts B and C: toISO(s), a second try with "Z" appended
toISO_BC(v, zone) ==
    isoOrNull(OrIfInvalid(IF v = Undefined THEN InvalidDate ELSE NativeParse(v, zone),
                          NativeParse(String(v) \o "Z", zone)))

\* new Date(Date.UTC(+yyyy, +MM - 1, +dd, +hh, +mm, +ss)).toISOString()
UTCOfDMY(m) == toISOString(DateUTC(m[3], m[2] - 1, m[1], m[4], m[5], m[6]))
UTCOfYMD(m) == toISOString(DateUTC(m[1], m[2] - 1, m[3], m[4], m[5], m[6]))

\* toISO after the DD/MM/YYYY test m1: the date of its fields, else the generic parser
DMYOrElse(m1, other) == IF m1 # <<>> THEN UTCOfDMY(m1) ELSE other
YMDOrElse(m2, other) == IF m2 # <<>> THEN UTCOfYMD(m2) ELSE other

\* scripts D and F: toISO(dt)
toISO_DF(v, zone) ==
    LET s == norm(v)
    IN DMYOrElse(MatchDMY(s),
                 isoOrNull(NativeParse(IF endsWith(s, "Z") THEN s ELSE s \o "Z", zone)))

\* script E: toISO(dt)
toISO_E(v, zone) ==
    LET s == norm(v)
    IN IF LooksISO(s) THEN isoOrNull(NativeParse(s, zone))
       ELSE DMYOrElse(MatchDMY(s), YMDOrElse(MatchYMD(s), isoOrNull(NativeParse(s, zone))))

toISO(s, v, zone) ==
    CASE s = "A" -> toISO_A(v, zone)
      [] s \in {"B", "C"} -> toISO_BC(v, zone)
      [] s \in {"D", "F"} -> toISO_DF(v, zone)
      [] s = "E" -> toISO_E(v, zone)

(***************************************************************************)
(* Time-series reducer                                                     *)
(***************************************************************************)
(* A record of the series is a function from its keys ("ts", the canonical  *)
(* keys, "raw", ...) to their values, as JSON.stringify writes it: a key    *)
(* whose value is undefined is absent.  byTs (a Map) is the sequence of its *)
(* values in insertion order.                                               *)
NewRecord(ts) == [ts |-> ts]
SetKey(rec, k, v) == (k :> v) @@ rec
KeysOf(rec) == DOMAIN rec

\* if (!byTs.has(ts)) byTs.set(ts, { ts }); byTs.get(ts)[key] = val;
Upsert(byTs, ts, key, val) ==
    IF \E i \in DOMAIN byTs : byTs[i].ts = ts
    THEN [i \in DOMAIN byTs |-> IF byTs[i].ts = ts THEN SetKey(byTs[i], key, val) ELSE byTs[i]]
    ELSE Append(byTs, SetKey(NewRecord(ts), key, val))

\* parseFloat(norm(r[valueCol]).replace(",", "."))           scripts C, D, E, F
valueOfNorm(h, r, col) == parseFloat(replaceFirstComma(norm(Cell(h, r, col))))
\* parseFloat(String(r[valueCol]).replace(",", "."))         scripts A, B
valueOfString(h, r, col) == parseFloat(replaceFirstComma(String(Cell(h, r, col))))

\* script B: the first truthy r[pc] of the parameter columns, else null
RECURSIVE firstLabel(_, _, _)
firstLabel(h, r, pcs) ==
    IF pcs = <<>> THEN Undefined
    ELSE LET v == Cell(h, r, pcs[1])
         IN IF v # Undefined /\ v # "" THEN v ELSE firstLabel(h, r, Tail(pcs))

\* whether the script's row selector takes the row
Selected(s, env, c, chosen, h, r) ==
    CASE s = "A" -> matchesStation(c, h, r)
      [] s = "B" -> rowIsCardigan(c, h, r)
      [] s = "C" -> looksLikeCardigan(stationMatchPool(h, r, c.filterCols))
      [] s = "D" -> isCardiganD(env, c, h, r)
      [] s = "E" -> isCardiganE(env, c, h, r)
      [] s = "F" -> matchesChosen(chosen, c, h, r)

\* the canonical key the script gives the row's parameter label (long shape)
ClassOf(s, c, h, r) ==
    CASE s = "A" -> wanted(trim(StringOrEmpty(Cell(h, r, c.param))))
      [] s = "B" -> classifyParamB(firstLabel(h, r, c.paramCols))
      [] s = "C" -> classifyLongParam(Cell(h, r, c.param))
      [] s = "E" -> classifyParam(Cell(h, r, c.param))

ValueOf(s, c, h, r) ==
    IF s \in {"A", "B"} THEN valueOfString(h, r, c.value) ELSE valueOfNorm(h, r, c.value)

(* The loop "for (const r of rows)" of scripts A, B, C (long branch) and E: *)
(* byTs after the rows rws.                                                 *)
\* one pass of the loop body: the row is skipped (continue) or set into byTs
stepLong(byTs, selected, ts, cls, val) ==
    IF ~selected THEN byTs
    ELSE IF ts = NullTs THEN byTs
    ELSE IF cls = Unclassified THEN byTs
    ELSE IF ~isFinite(val) THEN byTs
    ELSE Upsert(byTs, ts, cls, val[1])

RECURSIVE reduceLong(_, _, _, _, _, _)
reduceLong(s, env, zone, c, h, rws) ==
    IF rws = <<>> THEN <<>>
    ELSE LET r == rws[Len(rws)]
         IN stepLong(reduceLong(s, env, zone, c, h, SubSeq(rws, 1, Len(rws) - 1)),
                     Selected(s, env, c, NoColumns, h, r),
                     toISO(s, Cell(h, r, c.time), zone),
                     ClassOf(s, c, h, r),
                     ValueOf(s, c, h, r))

(* The loop of scripts D and F: ts -> raw, the labels as they are.          *)
\* one pass of the loop body: the row is skipped (continue) or set into byTs
stepRaw(byTs, selected, ts, label, val) ==
    IF ~selected THEN byTs
    ELSE IF ts = NullTs THEN byTs
    ELSE IF ~isFinite(val) \/ label = "" THEN byTs
    ELSE IF \E i \in DOMAIN byTs : byTs[i].ts = ts
    THEN [i \in DOMAIN byTs |->
            IF byTs[i].ts = ts
            THEN [byTs[i] EXCEPT !.raw = RawSet(@, label, val[1])] ELSE byTs[i]]
    ELSE Append(byTs, [ts |-> ts, raw |-> RawSet(<<>>, label, val[1])])

RECURSIVE reduceRaw(_, _, _, _, _, _, _)
reduceRaw(s, env, zone, c, chosen, h, rws) ==
    IF rws = <<>> THEN <<>>
    ELSE LET r == rws[Len(rws)]
         IN stepRaw(reduceRaw(s, env, zone, c, chosen, h, SubSeq(rws, 1, Len(rws) - 1)),
                    Selected(s, env, c, chosen, h, r),
                    toISO(s, Cell(h, r, c.time), zone),
                    norm(Cell(h, r, c.param)),
                    valueOfNorm(h, r, c.value))

\* the canonical fields of scripts D and F, added to a record one key at a time
RECURSIVE withFields(_, _, _)
withFields(rec, picked, keys) ==
    IF keys = <<>> THEN rec
    ELSE LET k == Head(keys)
             r == IF picked[k] # <<>> THEN SetKey(rec, k, picked[k][1]) ELSE rec
         IN withFields(r, picked, Tail(keys))

\* script D: canonicalize(entry)
canonicalize(entry) ==
    withFields(entry, [k \in {"hm0", "tp", "tz", "dir"} |-> pickFieldD(entry.raw, PatternsD(k))],
               CanonicalKeys)

\* script F: the body of series.map(e => ...)
canonicalizeF(e) ==
    LET picked == [k \in {"hm0", "tp", "tz", "dir"} |-> pickFieldF(e.raw, PatternsF(k))]
        \* if (obj.dir == null && e.raw["W_PDIR"] != null) obj.dir = e.raw["W_PDIR"];
        dir == IF picked["dir"] = <<>> /\ "W_PDIR" \in RawLabels(e.raw)
               THEN <<RawGet(e.raw, "W_PDIR")>> ELSE picked["dir"]
    IN withFields(e, [picked EXCEPT !["dir"] = dir], CanonicalKeys)

\* script C, wide branch: the record of one row, its fields in the order hm0, tp, tz, dir
RECURSIVE wideRecord(_, _, _, _, _)
wideRecord(rec, c, h, r, keys) ==
    IF keys = <<>> THEN rec
    ELSE LET k   == Head(keys)
             col == c.wideMap[k]
             val == valueOfNorm(h, r, col)
             nxt == IF col # NoCol /\ col # "" /\ isFinite(val) THEN SetKey(rec, k, val[1])
                    ELSE rec
         IN wideRecord(nxt, c, h, r, Tail(keys))

\* script C, wide branch: series after the rows rws (one push per row)
\* if (obj.hm0 != null || obj.tp != null || obj.tz != null || obj.dir != null) series.push(obj)
pushWide(acc, obj) == IF KeysOf(obj) = {"ts"} THEN acc ELSE Append(acc, obj)

\* one pass of the loop body: the row is skipped (continue) or its record pushed
stepWide(acc, selected, ts, c, h, r) ==
    IF ~selected THEN acc
    ELSE IF ts = NullTs THEN acc
    ELSE pushWide(acc, wideRecord(NewRecord(ts), c, h, r, CanonicalKeys))

RECURSIVE reduceWide(_, _, _, _, _)
reduceWide(env, zone, c, h, rws) ==
    IF rws = <<>> THEN <<>>
    ELSE LET r == rws[Len(rws)]
         IN stepWide(reduceWide(env, zone, c, h, SubSeq(rws, 1, Len(rws) - 1)),
                     Selected("C", env, c, NoColumns, h, r),
                     toISO("C", Cell(h, r, c.time), zone),
                     c, h, r)

(* a.localeCompare(b) < 0 for two timestamps.  ISO strings of the years     *)
(* 0000..9999 have one length and the same punctuation in the same places,  *)
(* so the collation is decided by the first differing digit.                *)
CollationOrder == "-:.0123456789TZ"
RECURSIVE localeLess(_, _)
localeLess(a, b) ==
    IF Len(b) = 0 THEN FALSE
    ELSE IF Len(a) = 0 THEN TRUE
    ELSE LET ra == IndexIn(CollationOrder, CharAt(a, 1))
             rb == IndexIn(CollationOrder, CharAt(b, 1))
         IN IF ra # rb THEN ra < rb
            ELSE localeLess(SubSeq(a, 2, Len(a)), SubSeq(b, 2, Len(b)))

\* insert rec after every record that does not compare greater (a stable sort)
RECURSIVE insertSorted(_, _)
insertSorted(sorted, rec) ==
    IF sorted = <<>> THEN <<rec>>
    ELSE IF localeLess(rec.ts, sorted[Len(sorted)].ts)
    THEN Append(insertSorted(SubSeq(sorted, 1, Len(sorted) - 1), rec), sorted[Len(sorted)])
    ELSE Append(sorted, rec)

\* the sort left out: the records in the order the reducer inserted them
insertionOrder(arr) == arr

\* arr.sort((a,b) => a.ts.localeCompare(b.ts))
RECURSIVE sortByTs(_)
sortByTs(arr) ==
    IF arr = <<>> THEN <<>>
    ELSE insertSorted(sortByTs(SubSeq(arr, 1, Len(arr) - 1)), arr[Len(arr)])

mapSeq(arr, F(_)) == [i \in DOMAIN arr |-> F(arr[i])]

\* the series a script builds from the rows, before it is sorted
buildSeries(s, env, zone, c, h, rws) ==
    CASE s \in {"A", "B", "E"} -> reduceLong(s, env, zone, c, h, rws)
      [] s = "C" -> IF c.isWide THEN reduceWide(env, zone, c, h, rws)
                    ELSE reduceLong(s, env, zone, c, h, rws)
      [] s = "D" -> mapSeq(reduceRaw(s, env, zone, c, NoColumns, h, rws), canonicalize)
      [] s = "F" -> mapSeq(reduceRaw(s, env, zone, c, pickStation(env, c, h, rws), h, rws),
                           canonicalizeF)

\* JSON null
Null == [null |-> TRUE]
\* series[0] ?? null: the first record taken for the last
firstOf(recs) == IF recs = <<>> THEN Null ELSE recs[1]
\* series.at(-1) ?? null
latestOf(recs) == IF recs = <<>> THEN Null ELSE recs[Len(recs)]

(***************************************************************************)
(* The payloads and environments a run is checked on                       *)
(***************************************************************************)
\* the longest payload, in data rows
MaxRows == 2

\* the local zone's offset from UTC, in minutes
TZOffsets == {0, 60}
\* process.env.INST_ID: unset, or an id without a digit
InstIdEnvs == {Undefined, "abc"}

T1dmy == "01/06/2024 12:00"
T1iso == "2024-06-01T12:00:00Z"
T0ymd == "2024-05-31 23:00"
Tbad  == "not-a-date"
\* day first, the day above 12, no time of day
T13dmy == "13/06/2024"
\* day first, with seconds
T1dmys == "01/06/2024 12:00:30"

FullHeaders == <<"DateTime", "Station", "InstId", "Deployment", "Parameter", "Value">>
FullTimes   == {T1dmy, T1iso, T0ymd, Tbad, T13dmy, T1dmys}
FullIdents  == {<<"EXT", "353", "Cardigan Bay">>, <<"OTHER", "999", "Dover">>,
                <<"NEXT", "n/a", "Dover">>}
FullMeas    == {<<"Hm0", "1,5">>, <<"Hs", "6.2">>, <<"Tp", "6.2">>, <<"", "1,5">>,
                <<"Hm0", "x">>, <<"constructor", "1,5">>, <<"W_PDIR", "270">>}
FullRow(t, id, m) == <<t, id[1], id[2], id[3], m[1], m[2]>>
\* every time, every measurement and every identity, each against one base row
FullPool ==
    {FullRow(t, <<"EXT", "353", "Cardigan Bay">>, <<"Hm0", "1,5">>) : t \in FullTimes}
    \cup {FullRow(T1dmy, <<"EXT", "353", "Cardigan Bay">>, m) : m \in FullMeas}
    \cup {FullRow(T1dmy, id, <<"Hm0", "1,5">>) : id \in FullIdents}
    \cup {FullRow(T0ymd, <<"EXT", "353", "Cardigan Bay">>, <<"Hs", "6.2">>)}

WideHeaders == <<"Time", "Station", "Hm0", "Tp">>
WidePool ==
    {<<t, "EXT", "1.2", "5.0">> : t \in {T1iso, T0ymd, Tbad}}
    \cup {<<T1iso, "EXT", "1,5", "x">>, <<T1iso, "OTHER", "1.2", "5.0">>,
          <<T1iso, "EXT", "", "">>}

LongHeaders == <<"Time", "Parameter", "Value", "Station">>
LongPool ==
    {<<T1dmy, "Hm0", "1,5", "EXT">>, <<T1dmy, "Tp", "6.2", "EXT">>,
     <<T1dmy, "Hm0", "1,5", "OTHER">>, <<T1dmy, "Hm0", "1,5", "NEXT">>,
     <<T1iso, "Tpp", "6.2", "EXT">>, <<T0ymd, "Hm0", "1,5", "EXT">>}

\* no column that any script reads as the time
NoTimeHeaders == <<"InstId", "Parameter", "Value", "Station">>
NoTimePool == {<<"353", "Hm0", "1,5", "EXT">>, <<"353", "Tp", "6.2", "EXT">>}

\* no column that any script reads as the value
NoValueHeaders == <<"Time", "InstId", "Parameter", "Station">>
NoValuePool == {<<T1dmy, "353", "Hm0", "EXT">>, <<T0ymd, "353", "Tp", "EXT">>}

\* header names in another case than the candidates', after a column that holds a needle
DriftHeaders == <<"LastUpdate", "datetime", "Site", "Location", "Parameter", "Value">>
DriftPool ==
    {<<"2024-06-02", T1iso, "EXT", "Cardigan Bay", "Hm0", "1,5">>,
     <<"2024-06-02", T0ymd, "EXT", "Cardigan Bay", "Tp", "6.2">>}

\* two columns of one measurement, and no other measurement column
SameKeyHeaders == <<"Time", "Station", "Hm0", "Hs">>
SameKeyPool == {<<T1iso, "EXT", "1.2", "1.3">>, <<T0ymd, "EXT", "1,5", "x">>}

\* no column of a station, platform, name, deployment or instrument id
BareHeaders == <<"Time", "Parameter", "Value">>
BarePool == {<<T1iso, "Hm0", "1,5">>, <<T0ymd, "Cardigan EXT Hs", "353">>}

SeqsUpTo(S, n) == UNION {[1..k -> S] : k \in 0..n}

PayloadsOf(h, pool) == {[headers |-> h, rows |-> rs] : rs \in SeqsUpTo(pool, MaxRows)}

\* what parse(text, {columns: true}) may return: the header row and the data rows
Payloads ==
    PayloadsOf(FullHeaders, FullPool) \cup PayloadsOf(WideHeaders, WidePool)
    \cup PayloadsOf(LongHeaders, LongPool) \cup PayloadsOf(NoTimeHeaders, NoTimePool)
    \cup PayloadsOf(NoValueHeaders, NoValuePool) \cup PayloadsOf(DriftHeaders, DriftPool)
    \cup PayloadsOf(SameKeyHeaders, SameKeyPool) \cup PayloadsOf(BareHeaders, BarePool)

HeaderRows ==
    {FullHeaders, WideHeaders, LongHeaders, NoTimeHeaders, NoValueHeaders, DriftHeaders,
     SameKeyHeaders, BareHeaders}

\* the column detection of every script on every header row, computed once
Detected == {<<s, h, Detect(s, h)>> : s \in Scripts, h \in HeaderRows}
DetectedCols(s, h) == (CHOOSE d \in Detected : d[1] = s /\ d[2] = h)[3]

(***************************************************************************)
(* The run of a script                                                     *)
(***************************************************************************)
VARIABLES
    script,     \* which of the six scripts runs
    tz,         \* the local zone of the process
    instIdEnv,  \* process.env.INST_ID
    pc,         \* the statement the script is at
    respOk,     \* resp.ok
    headers,    \* Object.keys(rows[0]), kept from the parse on
    rows,       \* the parsed data rows, each a tuple of cells in header order
    cols,       \* the resolved column roles
    series,     \* the time series
    latest,     \* series.at(-1) ?? null
    files,      \* public/: what has been written
    exitCode    \* the process's exit status, -1 while it runs

vars == <<script, tz, instIdEnv, pc, respOk, headers, rows, cols, series, latest, files,
          exitCode>>

\* A file is <<>> while it does not exist and <<content>> once written.
NoFiles ==
    [dir |-> FALSE, history |-> <<>>, latest |-> <<>>, diagnostics |-> <<>>,
     index |-> FALSE, stations |-> FALSE]

\* fs.mkdirSync("public", { recursive: true })
mkdir(f) == [f EXCEPT !.dir = TRUE]

Init ==
    /\ script \in Scripts
    /\ tz \in TZOffsets
    /\ instIdEnv \in InstIdEnvs
    /\ pc = "fetch"
    /\ respOk = FALSE
    /\ headers = <<>>
    /\ rows = <<>>
    /\ cols = NoColumns
    /\ series = <<>>
    /\ latest = Null
    /\ files = NoFiles
    /\ exitCode = -1

\* const resp = await fetch(CSV_URL, ...): any HTTP status
Fetch ==
    /\ pc = "fetch"
    /\ respOk' \in BOOLEAN
    /\ pc' = "checkResp"
    /\ UNCHANGED <<script, tz, instIdEnv, headers, rows, cols, series, latest, files, exitCode>>

(* The status check left out: the body of the error response is parsed    *)
(* (to no rows) and the script goes on as after a successful fetch.        *)
FetchUnchecked ==
    /\ pc = "checkResp"
    /\ ~respOk
    /\ headers' = <<>>
    /\ rows' = <<>>
    /\ files' = IF script \in {"C", "D", "E", "F"} THEN mkdir(files) ELSE files
    /\ pc' = "checkRows"
    /\ UNCHANGED <<script, tz, instIdEnv, respOk, cols, series, latest, exitCode>>

\* if (!resp.ok) { console.error(...); process.exit(1); }
FetchFailed ==
    /\ pc = "checkResp"
    /\ ~respOk
    /\ pc' = "exit"
    /\ exitCode' = 1
    /\ UNCHANGED <<script, tz, instIdEnv, respOk, headers, rows, cols, series, latest, files>>

(* const rows = parse(await resp.text(), ...).  Scripts C, D, E and F       *)
(* create public/ right after it; A and B only when they write.             *)
Parse ==
    /\ pc = "checkResp"
    /\ respOk
    /\ \E p \in Payloads :
        /\ headers' = p.headers
        /\ rows' = p.rows
    /\ files' = IF script \in {"C", "D", "E", "F"} THEN mkdir(files) ELSE files
    /\ pc' = "checkRows"
    /\ UNCHANGED <<script, tz, instIdEnv, respOk, cols, series, latest, exitCode>>

\* what the empty-rows branch writes (scripts B to F)
EmptyFiles(f, note) ==
    [mkdir(f) EXCEPT
        !.latest = <<[latest |-> Null]>>,
        !.history = <<<<>>>>,
        !.diagnostics = <<[note |-> note]>>]

(* if (!rows.length) { ... }: script A reports "CSV had no rows." and       *)
(* exits 1; the others write latest.json, history.json, diagnostics.json    *)
(* and exit 0.                                                              *)
EmptyPayload ==
    /\ pc = "checkRows"
    /\ rows = <<>>
    /\ IF script = "A"
       THEN /\ exitCode' = 1
            /\ files' = files
       ELSE /\ exitCode' = 0
            /\ files' = EmptyFiles(files, IF script = "B" THEN "CSV returned 0 rows"
                                          ELSE "CSV empty")
    /\ pc' = "exit"
    /\ UNCHANGED <<script, tz, instIdEnv, respOk, headers, rows, cols, series, latest>>

\* const headers = Object.keys(rows[0]); and the column detection after it
DetectColumns ==
    /\ pc = "checkRows"
    /\ rows # <<>>
    /\ cols' = DetectedCols(script, headers)
    /\ pc' = "detected"
    /\ UNCHANGED <<script, tz, instIdEnv, respOk, headers, rows, series, latest, files,
                   exitCode>>

\* script A: if (!timeCol || !paramCol || !valueCol)
RequiredMissing == cols.time = NoCol \/ cols.param = NoCol \/ cols.value = NoCol

\* script A: console.error("Could not identify required columns..."); process.exit(1);
MissingColumns ==
    /\ pc = "detected"
    /\ script = "A"
    /\ RequiredMissing
    /\ pc' = "exit"
    /\ exitCode' = 1
    /\ UNCHANGED <<script, tz, instIdEnv, respOk, headers, rows, cols, series, latest, files>>

\* the selection, the reduction, the sort and "const latest = series.at(-1) ?? null"
Reduce ==
    /\ pc = "detected"
    /\ ~(script = "A" /\ RequiredMissing)
    /\ series' = sortByTs(buildSeries(script, instIdEnv, tz, cols, headers, rows))
    /\ latest' = latestOf(series')
    /\ pc' = "write"
    /\ UNCHANGED <<script, tz, instIdEnv, respOk, headers, rows, cols, files, exitCode>>

(* The writes that end every script: history.json, latest.json, (all but A) *)
(* diagnostics.json, index.html, (F) stations.json; then the script ends.   *)
WriteOutputs ==
    /\ pc = "write"
    /\ files' = [mkdir(files) EXCEPT
            !.history = <<series>>,
            !.latest = <<[latest |-> latest]>>,
            !.diagnostics = IF script = "A" THEN <<>>
                            ELSE <<[note |-> "", timeCol |-> cols.time,
                                    valueCol |-> cols.value, seriesCount |-> Len(series)]>>,
            !.index = TRUE,
            !.stations = (script = "F")]
    /\ pc' = "exit"
    /\ exitCode' = 0
    /\ UNCHANGED <<script, tz, instIdEnv, respOk, headers, rows, cols, series, latest>>

Next ==
    \/ Fetch
    \/ FetchFailed
    \/ Parse
    \/ EmptyPayload
    \/ DetectColumns
    \/ MissingColumns
    \/ Reduce
    \/ WriteOutputs

Spec == Init /\ [][Next]_vars

(***************************************************************************)
(* Properties of a run                                                     *)
(***************************************************************************)
\* the reduction has run: series and latest are the ones the script emits
Reduced == pc = "write" \/ (pc = "exit" /\ exitCode = 0 /\ rows # <<>>)

(* a < b in ISO-8601 lexical order: the strings compared character by       *)
(* character by code unit ("-" < "." < digits < ":" < "T" < "Z").           *)
CodeUnitOrder == "-.0123456789:TZ"
RECURSIVE LexLess(_, _)
LexLess(a, b) ==
    IF Len(b) = 0 THEN FALSE
    ELSE IF Len(a) = 0 THEN TRUE
    ELSE LET ra == IndexIn(CodeUnitOrder, CharAt(a, 1))
             rb == IndexIn(CodeUnitOrder, CharAt(b, 1))
         IN IF ra # rb THEN ra < rb
            ELSE LexLess(SubSeq(a, 2, Len(a)), SubSeq(b, 2, Len(b)))

NonDecreasing(recs) == \A i \in 1..(Len(recs) - 1) : ~LexLess(recs[i + 1].ts, recs[i].ts)

(* C1: when the fetch returns a non-success status, the run ends with a     *)
(* non-zero exit status, and at no point before it ends has the output      *)
(* directory or any output file been written.                               *)
C1_FetchFailureWritesNothing ==
    (pc # "fetch" /\ ~respOk) =>
        /\ pc \in {"checkResp", "exit"}
        /\ files = NoFiles
        /\ (pc = "checkResp" => exitCode = -1)
        /\ (pc = "exit" => exitCode = 1)

\* a run that ended on a failed fetch
C1_FetchFailed_Reached == pc = "exit" /\ ~respOk /\ exitCode = 1 /\ files = NoFiles

(* C2: when the payload parses to zero rows, the run writes the empty       *)
(* series [] and a latest document whose latest is null, and exits 0.       *)
C2_EmptyPayloadSucceeds ==
    (pc = "exit" /\ respOk /\ rows = <<>>) =>
        /\ exitCode = 0
        /\ files.history = <<<<>>>>
        /\ files.latest = <<[latest |-> Null]>>

\* script A on a payload of zero rows: exit status 1 and nothing written
C2_ScriptA_EmptyPayload_Reached ==
    script = "A" /\ pc = "exit" /\ respOk /\ rows = <<>> /\ exitCode = 1 /\ files = NoFiles

\* no column was resolved as the time, or none as the value (long or wide)
NoTimeOrValueColumn == cols.time = NoCol \/ (cols.value = NoCol /\ ~cols.isWide)

(* C3: when a non-empty dataset has no resolvable time column or no         *)
(* resolvable value-bearing column, the series, latest and diagnostics      *)
(* documents are still written, with an empty series and a null latest,     *)
(* and the run exits 0.                                                     *)
C3_UnresolvedColumnsStillWrite ==
    (pc = "exit" /\ respOk /\ rows # <<>> /\ NoTimeOrValueColumn) =>
        /\ exitCode = 0
        /\ files.history = <<<<>>>>
        /\ files.latest = <<[latest |-> Null]>>
        /\ files.diagnostics # <<>>

\* script A on rows without a time column: exit status 1 and nothing written
C3_ScriptA_MissingColumn_Reached ==
    /\ script = "A" /\ pc = "exit" /\ respOk /\ rows # <<>> /\ cols.time = NoCol
    /\ exitCode = 1 /\ files = NoFiles

(* C4: the emitted series never holds two records with the same normalized  *)
(* timestamp, whatever the shape of the dataset and the order of its rows.  *)
C4_TimestampsUnique ==
    \A i, j \in DOMAIN series : i # j => series[i].ts # series[j].ts

\* script C on a wide dataset: two rows of one timestamp, two records written
C4_WideDuplicate_Reached ==
    /\ script = "C" /\ cols.isWide /\ pc = "exit" /\ files.history # <<>>
    /\ Len(files.history[1]) = 2
    /\ files.history[1][1].ts = files.history[1][2].ts

(* C5: the emitted series is non-decreasing by timestamp in ISO-8601        *)
(* lexical order, whatever the order of the rows in the input.              *)
C5_SeriesSorted ==
    /\ NonDecreasing(series)
    /\ (files.history # <<>> => NonDecreasing(files.history[1]))

\* two rows given latest first, written as two records
C5_ReversedInput_Reached ==
    /\ pc = "exit" /\ Len(rows) = 2 /\ headers = FullHeaders
    /\ rows[1][1] = T1dmy /\ rows[2][1] = T0ymd
    /\ files.history # <<>> /\ Len(files.history[1]) = 2
    /\ LexLess(files.history[1][1].ts, files.history[1][2].ts)

(* C6: the latest record written is the last element of the emitted series, *)
(* null when the series is empty; no record of the series has a timestamp   *)
(* greater than the latest record's.                                        *)
C6_LatestIsLast ==
    files.latest # <<>> =>
        /\ files.history # <<>>
        /\ LET hist == files.history[1]
               doc  == files.latest[1].latest
           IN /\ doc = (IF hist = <<>> THEN Null ELSE hist[Len(hist)])
              /\ \A i \in DOMAIN hist : ~LexLess(doc.ts, hist[i].ts)

\* a series of two timestamps written, and its second record as the latest
C6_LatestOfTwo_Reached ==
    /\ pc = "exit" /\ files.history # <<>> /\ files.latest # <<>>
    /\ Len(files.history[1]) = 2
    /\ files.history[1][1].ts # files.history[1][2].ts
    /\ files.latest[1].latest = files.history[1][2]

\* script F's chosen station for the run's rows (the other scripts choose none)
RunChosen == IF script = "F" THEN pickStation(instIdEnv, cols, headers, rows) ELSE NoColumns
RowSelected(r) == Selected(script, instIdEnv, cols, RunChosen, headers, r)
RowTs(r) == toISO(script, Cell(headers, r, cols.time), tz)
RowValue(r) == ValueOf(script, cols, headers, r)

\* the canonical key whose patterns (scripts D and F) a label matches
LabelKey(Patterns(_), label) ==
    LET ks == {k \in DOMAIN CanonicalKeys :
                  \E j \in DOMAIN Patterns(CanonicalKeys[k]) :
                      reTest(Patterns(CanonicalKeys[k])[j], canon(label))}
    IN IF ks = {} THEN Unclassified ELSE CanonicalKeys[Min(ks)]

\* the canonical key the running script classifies the row's label to
RowKey(r) ==
    CASE script = "D" -> LabelKey(PatternsD, norm(Cell(headers, r, cols.param)))
      [] script = "F" -> LabelKey(PatternsF, norm(Cell(headers, r, cols.param)))
      [] OTHER -> ClassOf(script, cols, headers, r)

\* a selected row with a timestamp, a canonical key and a finite value
Contributes(r) ==
    /\ RowSelected(r)
    /\ RowTs(r) # NullTs
    /\ RowKey(r) \in {"hm0", "tp", "tz", "dir"}
    /\ isFinite(RowValue(r))

\* the last row of the input with the timestamp and the canonical key of rows[i]
LastLike(i) ==
    CHOOSE j \in DOMAIN rows :
        /\ Contributes(rows[j]) /\ RowTs(rows[j]) = RowTs(rows[i])
        /\ RowKey(rows[j]) = RowKey(rows[i])
        /\ \A n \in DOMAIN rows :
              (Contributes(rows[n]) /\ RowTs(rows[n]) = RowTs(rows[i])
               /\ RowKey(rows[n]) = RowKey(rows[i])) => n <= j

(* C7: when several selected rows carry the same normalized timestamp and   *)
(* classify to the same canonical key (their labels may differ, as "Hm0"    *)
(* and "Hs"), the record's value for that key is the value of the last such *)
(* row in input order.  Stated for the datasets reduced row by row (the     *)
(* long shape).                                                             *)
C7_LastRowWins ==
    (Reduced /\ ~cols.isWide) =>
        \A i \in DOMAIN rows :
            Contributes(rows[i]) =>
                \E n \in DOMAIN series :
                    /\ series[n].ts = RowTs(rows[i])
                    /\ RowKey(rows[i]) \in DOMAIN series[n]
                    /\ series[n][RowKey(rows[i])] = RowValue(rows[LastLike(i)])[1]

\* script D on "Hm0" 1.5 then "Hs" 6.2 at one timestamp: hm0 is the first row's 1.5
C7_FirstLabelKept_Reached ==
    /\ script = "D" /\ pc = "exit" /\ headers = FullHeaders
    /\ rows = <<FullRow(T1dmy, <<"EXT", "353", "Cardigan Bay">>, <<"Hm0", "1,5">>),
                FullRow(T1dmy, <<"EXT", "353", "Cardigan Bay">>, <<"Hs", "6.2">>)>>
    /\ Len(series) = 1
    /\ series[1]["hm0"] = 1500

(* C8: every record of the emitted series has, besides its timestamp, only  *)
(* fields whose keys are among hm0, tp, tz and dir.                         *)
C8_OnlyCanonicalKeys ==
    \A i \in DOMAIN series : KeysOf(series[i]) \subseteq {"ts", "hm0", "tp", "tz", "dir"}

\* script F has written a record that carries the key "raw"
C8_RawWritten_Reached ==
    /\ script = "F" /\ pc = "exit" /\ files.history # <<>>
    /\ files.history[1] # <<>>
    /\ "raw" \in KeysOf(files.history[1][1])

Range(f) == {f[i] : i \in DOMAIN f}
\* the instrument id a run is configured with: process.env.INST_ID, "353" when unset
ConfiguredInst == IF instIdEnv = Undefined THEN "353" ELSE instIdEnv

(* The three identity signals as the specification states them, read off    *)
(* the columns that carry the names of their roles.                         *)
ExactSignal(r) ==
    \E i \in DOMAIN headers :
        /\ headers[i] \in Range(StationNames) \cup Range(PlatformNames4) \cup Range(NameNames)
        /\ toUpperCase(trim(r[i])) \in {toUpperCase(STATION_CODE), toUpperCase(PLATFORM_ID)}
NumericSignal(cell) ==
    /\ digitsOnly(ConfiguredInst) # ""
    /\ digitsOnly(cell) # ""
    /\ digitsOnly(cell) = digitsOnly(ConfiguredInst)
NameSignal(r) ==
    \E i \in DOMAIN headers :
        /\ headers[i] \in Range(StationNames) \cup Range(PlatformNames4) \cup Range(NameNames)
                          \cup Range(DeployNames)
        /\ includes(lc(r[i]), "cardigan")
IdentitySignal(r) ==
    \/ ExactSignal(r)
    \/ \E i \in DOMAIN headers : headers[i] \in Range(InstNames) /\ NumericSignal(r[i])
    \/ NameSignal(r)

(* C9: a row is selected only if an identity signal matches: when no row    *)
(* of the dataset has a matching station code, platform id, instrument id   *)
(* or location name, the emitted series is empty.                           *)
C9_NoSignalNoSeries ==
    (Reduced /\ \A i \in DOMAIN rows : ~IdentitySignal(rows[i])) => series = <<>>

\* script F on one row of station OTHER, instrument 999, deployment Dover: one record
C9_OtherStationSelected_Reached ==
    /\ script = "F" /\ pc = "exit" /\ headers = FullHeaders
    /\ rows = <<FullRow(T1dmy, <<"OTHER", "999", "Dover">>, <<"Hm0", "1,5">>)>>
    /\ Len(series) = 1

\* the instrument-id test of the running script (scripts D and E have one)
NumericSignalOf(r) ==
    IF script = "D" THEN NumericSignalD(instIdEnv, cols, headers, r)
    ELSE NumericSignalE(instIdEnv, cols, headers, r)

(* C10: the numeric identity signal selects a row exactly when the          *)
(* digits-only forms of the configured instrument id and of the row's       *)
(* instrument-id cell are both non-empty and equal.                         *)
C10_NumericSignalExact ==
    (script \in {"D", "E"} /\ cols.inst # NoCol) =>
        \A i \in DOMAIN rows :
            NumericSignalOf(rows[i]) <=> NumericSignal(Cell(headers, rows[i], cols.inst))

\* INST_ID "abc" and the cell "n/a": script D selects the row of station NEXT
C10_NoDigitsSelected_Reached ==
    /\ script = "D" /\ instIdEnv = "abc" /\ pc = "exit" /\ headers = FullHeaders
    /\ rows = <<FullRow(T1dmy, <<"NEXT", "n/a", "Dover">>, <<"Hm0", "1,5">>)>>
    /\ NumericSignalOf(rows[1])
    /\ Len(series) = 1

\* the parameter label the running script reads from the row ("" when it reads none)
RowLabel(r) ==
    IF script = "B" THEN StringOrEmpty(firstLabel(headers, r, cols.paramCols))
    ELSE StringOrEmpty(Cell(headers, r, cols.param))

(* The classifier as the specification states it, on the case-folded,       *)
(* alphanumeric-only text of the label.                                     *)
StatedKey(label) ==
    LET t == alnumOnly(toLowerCase(label))
    IN IF includes(t, "hm0") \/ includes(t, "hs") \/ includes(t, "significantwaveheight")
       THEN "hm0"
       ELSE IF t = "tpeak" \/ t = "tp" \/ t = "tpp" \/ includes(t, "peakperiod") THEN "tp"
       ELSE IF t = "tz" \/ t = "t02" \/ includes(t, "zerocross") THEN "tz"
       ELSE IF includes(t, "wpdir") \/ t = "dp" \/ includes(t, "peakdirection") \/ t = "mwd"
               \/ includes(t, "meandirection") \/ t = "direction" THEN "dir"
       ELSE Unclassified

(* C11: the parameter classifier (scripts B, C and E) gives every raw label *)
(* the key of the stated rules, applied to the case-folded,                 *)
(* alphanumeric-only text, first match in the order hm0, tp, tz, dir; the   *)
(* label W_PDIR classifies as dir.                                          *)
C11_ClassifierAsStated ==
    (script \in {"B", "C", "E"} /\ Reduced /\ ~cols.isWide) =>
        \A i \in DOMAIN rows :
            ClassOf(script, cols, headers, rows[i]) = StatedKey(RowLabel(rows[i]))

\* script E on a selected row "W_PDIR" 270: the label is not classified, nothing is written
C11_WPDIRDropped_Reached ==
    /\ script = "E" /\ pc = "exit" /\ headers = FullHeaders
    /\ rows = <<FullRow(T1dmy, <<"EXT", "353", "Cardigan Bay">>, <<"W_PDIR", "270">>)>>
    /\ RowSelected(rows[1]) /\ RowTs(rows[1]) # NullTs /\ isFinite(RowValue(rows[1]))
    /\ ClassOf(script, cols, headers, rows[1]) = Unclassified
    /\ files.history = <<<<>>>>

\* the strings a run of script C classifies: the column headers and the rows' labels
ClassifiedStrings == Range(headers) \cup {RowLabel(rows[i]) : i \in DOMAIN rows}

(* C12: for every string, classifyLongParam (the string as a long-form      *)
(* parameter label) and classifyWideHeader (the string as a wide-form       *)
(* column header) give the same canonical key, or both give none.           *)
C12_LongAndWideAgree ==
    (script = "C" /\ pc \in {"detected", "write", "exit"}) =>
        \A str \in ClassifiedStrings : classifyLongParam(str) = classifyWideHeader(str)

\* script C has written tp from a row labelled "Tpp", which as a header has no key
C12_TppOnlyLong_Reached ==
    /\ script = "C" /\ pc = "exit" /\ headers = LongHeaders
    /\ rows = <<<<T1iso, "Tpp", "6.2", "EXT">>>>
    /\ files.history # <<>> /\ Len(files.history[1]) = 1
    /\ files.history[1][1]["tp"] = 6200
    /\ classifyWideHeader("Tpp") = Unclassified

(* The header classifier as the specification states it: the column of the  *)
(* highest-priority exact candidate that equals a header without regard to  *)
(* case; if no candidate does, the first header that contains the           *)
(* highest-priority needle found in any header; else null.                  *)
StatedColumn(exact, needles) ==
    LET H  == [i \in DOMAIN headers |-> toLowerCase(headers[i])]
        ex == {k \in DOMAIN exact : \E i \in DOMAIN headers : H[i] = toLowerCase(exact[k])}
        nd == {k \in DOMAIN needles : \E i \in DOMAIN headers : includes(H[i], needles[k])}
    IN IF ex # {}
       THEN headers[Min({i \in DOMAIN headers : H[i] = toLowerCase(exact[Min(ex)])})]
       ELSE IF nd # {}
       THEN headers[Min({i \in DOMAIN headers : includes(H[i], needles[Min(nd)])})]
       ELSE NoCol

\* the candidates and needles the running script gives for the time and the deployment
TimeCandidates == IF script \in {"A", "B", "C"} THEN TimeNames5 ELSE TimeNames6
TimeNeedles ==
    CASE script \in {"A", "B"} -> <<"time">>
      [] script \in {"C", "D", "E"} -> <<"date", "time">>
      [] script = "F" -> <<"time", "date">>
ValueCandidates == IF script \in {"A", "B", "C"} THEN ValueNames5 ELSE ValueNames6
DeployNeedles ==
    IF script = "F" THEN <<"deploy", "location", "site", "name">>
    ELSE <<"deployment", "location", "site", "name">>

(* C13: for each column role the header classifier returns the column of    *)
(* the highest-priority exact candidate, compared case-insensitively, if    *)
(* any exact candidate matches a header; only else the first header         *)
(* containing a fallback needle, needles tried in priority order; else      *)
(* null.  Stated for the time and value roles of every script and the       *)
(* deployment role of the scripts that have one.                            *)
C13_ExactThenNeedles ==
    pc \in {"detected", "write", "exit"} /\ rows # <<>> =>
        /\ cols.time = StatedColumn(TimeCandidates, TimeNeedles)
        /\ cols.value = StatedColumn(ValueCandidates, ValueNeedles)
        /\ script \in {"D", "E", "F"} => cols.dep = StatedColumn(DeployNames, DeployNeedles)

\* script F takes "LastUpdate" for the time though the header "datetime" is a candidate
C13_ScriptFWrongColumn_Reached ==
    /\ script = "F" /\ pc = "exit" /\ headers = DriftHeaders
    /\ cols.time = "LastUpdate" /\ cols.dep = "Site"
    /\ StatedColumn(TimeCandidates, TimeNeedles) = "datetime"
    /\ files.history = <<<<>>>>

\* the distinct canonical keys that classifying each column header yields
HeaderKeys == {classifyWideHeader(headers[i]) : i \in DOMAIN headers} \ {Unclassified}

(* C14: the shape detector (script C) takes a dataset for wide exactly when *)
(* classifying each column header yields at least two distinct canonical    *)
(* keys, and for long otherwise; headers of one key count once.  A wide     *)
(* dataset is reduced column by column, a long one label by label.          *)
C14_WideIffTwoKeys ==
    (script = "C" /\ pc \in {"detected", "write", "exit"} /\ rows # <<>>) =>
        /\ cols.isWide <=> Cardinality(HeaderKeys) >= 2
        /\ Reduced =>
              series = sortByTs(IF Cardinality(HeaderKeys) >= 2
                                THEN reduceWide(instIdEnv, tz, cols, headers, rows)
                                ELSE reduceLong("C", instIdEnv, tz, cols, headers, rows))

\* the columns "Hm0" and "Hs" both classify as hm0: one key, the dataset is long
C14_TwoHeadersOneKey_Reached ==
    /\ script = "C" /\ pc = "exit" /\ headers = SameKeyHeaders /\ rows # <<>>
    /\ Cardinality({i \in DOMAIN headers : classifyWideHeader(headers[i]) # Unclassified}) = 2
    /\ HeaderKeys = {"hm0"}
    /\ ~cols.isWide

\* the long-shape scenario: two rows of station EXT at one time, Hm0 and Tp
ScenarioRows == <<<<T1dmy, "Hm0", "1,5", "EXT">>, <<T1dmy, "Tp", "6.2", "EXT">>>>

(* C15: for long-shape input, selected rows of the target station that      *)
(* share one timestamp and carry different classified parameters are merged *)
(* into one record holding every parameter's value: the rows (Time          *)
(* "01/06/2024 12:00", Hm0, "1,5", EXT) and (the same Time, Tp, "6.2", EXT) *)
(* yield exactly one record, with the timestamp 2024-06-01T12:00:00.000Z,   *)
(* hm0 = 1.5 and tp = 6.2.                                                  *)
C15_ScenarioOneRecord ==
    (Reduced /\ headers = LongHeaders /\ rows = ScenarioRows) =>
        series = <<[ts |-> "2024-06-01T12:00:00.000Z", hm0 |-> 1500, tp |-> 6200]>>

\* script C in a UTC zone merges the two rows into one record dated the 6th of January
C15_JanuaryRecord_Reached ==
    /\ script = "C" /\ tz = 0 /\ pc = "exit" /\ headers = LongHeaders /\ rows = ScenarioRows
    /\ files.history = <<<<[ts |-> "2024-01-06T12:00:00.000Z", hm0 |-> 1500, tp |-> 6200]>>>>

\* s has the form DD/MM/YYYY, DD/MM/YYYY HH:MM or DD/MM/YYYY HH:MM:SS
DayFirstForm(s) ==
    /\ Len(s) \in {10, 16, 19}
    /\ AllDigits(s, 1, 2) /\ CharAt(s, 3) = "/" /\ AllDigits(s, 4, 5) /\ CharAt(s, 6) = "/"
    /\ AllDigits(s, 7, 10)
    /\ Len(s) >= 16 => /\ CharAt(s, 11) = " " /\ AllDigits(s, 12, 13) /\ CharAt(s, 14) = ":"
                       /\ AllDigits(s, 15, 16)
    /\ Len(s) = 19 => CharAt(s, 17) = ":" /\ AllDigits(s, 18, 19)

(* the instant the specification gives a day-first text of a calendar day:  *)
(* its own digits, as YYYY-MM-DDTHH:MM:SS.000Z, a missing component as 00   *)
DayFirstInstant(s) ==
    SubSeq(s, 7, 10) \o "-" \o SubSeq(s, 4, 5) \o "-" \o SubSeq(s, 1, 2) \o "T"
    \o (IF Len(s) >= 16 THEN SubSeq(s, 12, 16) ELSE "00:00") \o ":"
    \o (IF Len(s) = 19 THEN SubSeq(s, 18, 19) ELSE "00") \o ".000Z"

(* C16: toISO maps every input of the form DD/MM/YYYY, optionally followed  *)
(* by HH:MM or HH:MM:SS, to the ISO-8601 UTC instant whose day is DD, month *)
(* is MM and year is YYYY, missing time components taken as 00: day and     *)
(* month are not swapped and no local-time offset is applied.               *)
C16_DayFirstIsUTC ==
    (Reduced /\ cols.time # NoCol) =>
        \A i \in DOMAIN rows :
            DayFirstForm(Cell(headers, rows[i], cols.time)) =>
                RowTs(rows[i]) = DayFirstInstant(Cell(headers, rows[i], cols.time))

\* script B, one hour east of UTC: "01/06/2024 12:00" is written as the 6th of January, 11:00
C16_SwappedAndShifted_Reached ==
    /\ script = "B" /\ tz = 60 /\ pc = "exit" /\ headers = FullHeaders
    /\ rows = <<FullRow(T1dmy, <<"EXT", "353", "Cardigan Bay">>, <<"Hm0", "1,5">>)>>
    /\ files.history = <<<<[ts |-> "2024-01-06T11:00:00.000Z", hm0 |-> 1500]>>>>

\* the rows without the i-th
RemoveAt(rws, i) == SubSeq(rws, 1, i - 1) \o SubSeq(rws, i + 1, Len(rws))

\* every measurement cell of a wide row is non-numeric
NoWideValue(r) ==
    \A k \in DOMAIN cols.wideMap :
        cols.wideMap[k] # NoCol => ~isFinite(valueOfNorm(headers, r, cols.wideMap[k]))

(* a row with an unparseable timestamp, a non-numeric value, or an empty or *)
(* unclassifiable parameter label                                           *)
Malformed(r) ==
    \/ RowTs(r) = NullTs
    \/ IF cols.isWide THEN NoWideValue(r)
       ELSE ~isFinite(RowValue(r)) \/ RowKey(r) = Unclassified

\* the series the running script emits for the rows rws under the columns of the run
SeriesOf(rws) ==
    IF rws = <<>> THEN <<>>
    ELSE sortByTs(buildSeries(script, instIdEnv, tz, cols, headers, rws))

(* C17: a selected row with an unparseable timestamp, a non-numeric value,  *)
(* or an empty or unclassifiable parameter label contributes nothing: the   *)
(* series equals the series of the same input with that row removed, and    *)
(* the run does not abort.                                                  *)
C17_MalformedRowContributesNothing ==
    Reduced =>
        /\ pc = "exit" => exitCode = 0
        /\ \A i \in DOMAIN rows :
              (RowSelected(rows[i]) /\ Malformed(rows[i])) =>
                  series = SeriesOf(RemoveAt(rows, i))

\* script D has written a record with no measurement for a row labelled "constructor"
C17_RecordOfUnclassified_Reached ==
    /\ script = "D" /\ pc = "exit" /\ headers = FullHeaders
    /\ rows = <<FullRow(T1dmy, <<"EXT", "353", "Cardigan Bay">>, <<"constructor", "1,5">>)>>
    /\ RowSelected(rows[1]) /\ Malformed(rows[1])
    /\ Len(files.history[1]) = 1
    /\ KeysOf(files.history[1][1]) = {"ts", "raw"}

\* none of the identity roles of any script resolved to a column
NoIdentityColumn ==
    /\ cols.station = NoCol /\ cols.platform = NoCol /\ cols.inst = NoCol /\ cols.dep = NoCol
    /\ cols.stationCols = <<>> /\ cols.platformCols = <<>> /\ cols.nameCols = <<>>
    /\ cols.filterCols = <<>>

(* C18: when none of the station, platform, name, deployment or             *)
(* instrument-id roles resolves to a column of the dataset, no row is       *)
(* selected and the emitted series is empty, whatever the rows contain.     *)
C18_NoIdentityColumnNoRow ==
    (Reduced /\ NoIdentityColumn) =>
        /\ \A i \in DOMAIN rows : ~RowSelected(rows[i])
        /\ series = <<>>
        /\ files.history # <<>> => files.history[1] = <<>>

\* script C has written [] for a row that names Cardigan, EXT and 353 in its cells
C18_BareDataset_Reached ==
    /\ script = "C" /\ pc = "exit" /\ headers = BareHeaders /\ NoIdentityColumn
    /\ rows = <<<<T0ymd, "Cardigan EXT Hs", "353">>>>
    /\ RowTs(rows[1]) # NullTs /\ RowKey(rows[1]) = "hm0" /\ isFinite(RowValue(rows[1]))
    /\ files.history = <<<<>>>>

(* the series a second run of the same script writes for the same payload   *)
(* and the same configuration, the process being in the zone z              *)
SeriesInZone(z) == sortByTs(buildSeries(script, instIdEnv, z, cols, headers, rows))

(* C19: two runs of the pipeline on the same payload with the same          *)
(* configuration produce identical time-series and latest documents: the    *)
(* output depends on nothing but the payload and the configured identity    *)
(* values.  The second run is taken in every zone a process may be in.      *)
C19_SameInputSameOutput ==
    Reduced =>
        \A z \in TZOffsets :
            /\ series = SeriesInZone(z)
            /\ latest = latestOf(SeriesInZone(z))

\* script C writes "2024-05-31 23:00" as 22:00Z one hour east of UTC, as 23:00Z in a UTC zone
C19_ZoneInOutput_Reached ==
    /\ script = "C" /\ tz = 60 /\ pc = "exit" /\ headers = LongHeaders
    /\ rows = <<<<T0ymd, "Hm0", "1,5", "EXT">>>>
    /\ files.history = <<<<[ts |-> "2024-05-31T22:00:00.000Z", hm0 |-> 1500]>>>>
    /\ SeriesInZone(0) = <<[ts |-> "2024-05-31T23:00:00.000Z", hm0 |-> 1500]>>

=============================================================================
